---- MODULE Spec2Model ----
(***************************************************************************)
(* Model of rmpfit's src/lib.rs: the solve entry point mpfit, the working  *)
(* state MPFit, the norm utility MPFit::enorm and the Jacobian step-size   *)
(* loop MPFit::fdjack2.                                                    *)
(*                                                                         *)
(* Vectors are sequences.  The source indexes from 0 and the model keeps   *)
(* the source's 0-based index VALUES (ifree holds 0-based positions), so   *)
(* an access v[i] of the source is At(v, i) here and is in range exactly   *)
(* when i < Len(v).                                                        *)
(***************************************************************************)
EXTENDS Integers, Sequences, FiniteSets, TLC

\* ------------------------------------------------------------------ bounds
\* largest number of data points the residual evaluator reports
MaxM == 2
\* largest length of the parameter vector xall and of the constraint array
MaxPar == 2
\* largest max_iter a caller configures
MaxIter == 1

\* ------------------------------------------------------------- f64 values
(***************************************************************************)
(* An f64 is modelled as G^e * q, or sqrt(G^e * q) when r is TRUE, with q  *)
(* the rational n/d (d > 0) and G the scale of MP_RGIANT: e = 1 is "of the *)
(* order of MP_RGIANT", e = -1 "of the order of MP_RDWARF", e = 0 ordinary *)
(* magnitudes.  The scales are more than 2^53 apart, so a sum keeps the    *)
(* term of the larger scale, which is what f64 rounding does.  NaN and the *)
(* infinities are not modelled.                                            *)
(***************************************************************************)
RECURSIVE GCD(_, _)
GCD(a, b) == IF b = 0 THEN a ELSE GCD(b, a % b)

IAbs(i) == IF i < 0 THEN -i ELSE i

\* the number G^e * n/d in lowest terms; zero has one representation
Num(e, n, d) ==
    IF n = 0 THEN [e |-> 0, n |-> 0, d |-> 1, r |-> FALSE]
    ELSE LET g == GCD(IAbs(n), d)
         IN  [e |-> e, n |-> n \div g, d |-> d \div g, r |-> FALSE]

Zero == Num(0, 0, 1)
One == Num(0, 1, 1)
IntNum(i) == Num(0, i, 1)

IsZero(a) == a.n = 0

\* f64::abs
FAbs(a) == [a EXCEPT !.n = IAbs(a.n)]

\* a < b for values that are not roots
FLess(a, b) ==
    LET sa == IF a.n > 0 THEN 1 ELSE IF a.n < 0 THEN -1 ELSE 0
        sb == IF b.n > 0 THEN 1 ELSE IF b.n < 0 THEN -1 ELSE 0
    IN  IF sa # sb THEN sa < sb
        ELSE IF sa = 0 THEN FALSE
        ELSE IF a.e # b.e THEN (IF sa > 0 THEN a.e < b.e ELSE a.e > b.e)
        ELSE a.n * b.d < b.n * a.d

FGreater(a, b) == FLess(b, a)
FGeq(a, b) == ~FLess(a, b)

\* a + b for values that are not roots: the larger scale absorbs the smaller
FAdd(a, b) ==
    IF IsZero(a) THEN b
    ELSE IF IsZero(b) THEN a
    ELSE IF a.e > b.e THEN a
    ELSE IF b.e > a.e THEN b
    ELSE Num(a.e, a.n * b.d + b.n * a.d, a.d * b.d)

\* a / b for values that are not roots, b # 0
FDiv(a, b) ==
    IF b.n < 0 THEN Num(a.e - b.e, -(a.n * b.d), a.d * (-b.n))
    ELSE Num(a.e - b.e, a.n * b.d, a.d * b.n)

\* the integer square root of a perfect square, -1 otherwise
ISqrt(i) == IF \E k \in 0..i : k * k = i THEN CHOOSE k \in 0..i : k * k = i ELSE -1

\* f64::sqrt of a non-negative value that is not a root: exact when the
\* rational is a perfect square, the root of the rational otherwise
FSqrt(a) ==
    IF IsZero(a) THEN Zero
    ELSE IF ISqrt(a.n) >= 0 /\ ISqrt(a.d) >= 0 /\ a.e % 2 = 0
         THEN Num(a.e \div 2, ISqrt(a.n), ISqrt(a.d))
         ELSE [e |-> a.e, n |-> a.n, d |-> a.d, r |-> TRUE]

\* the square of a non-negative value, as a plain (not root) number
FSquare(a) ==
    IF a.r THEN Num(a.e, a.n, a.d) ELSE Num(2 * a.e, a.n * a.n, a.d * a.d)

\* a * b for non-negative values; a root times a number stays a root
FMul(a, b) ==
    IF IsZero(a) \/ IsZero(b) THEN Zero
    ELSE IF ~a.r /\ ~b.r THEN Num(a.e + b.e, a.n * b.n, a.d * b.d)
    ELSE LET sa == FSquare(a)
             sb == FSquare(b)
         IN  FSqrt(Num(sa.e + sb.e, sa.n * sb.n, sa.d * sb.d))

\* ----------------------------------------------------------- enorm
\* (f64::MIN_POSITIVE * 1.5).sqrt() * 10: the unit of scale -1
MP_RDWARF == Num(-1, 1, 1)
\* f64::MAX.sqrt() * 0.1: the unit of scale 1
MP_RGIANT == Num(1, 1, 1)

\* v[i] of the source, i counted from 0
At(v, i) == v[i + 1]

\* one pass of the loop of enorm over the component val; acc holds the
\* locals s1, s2, s3, x1max, x3max
EnormStep(acc, val, agiant) ==
    LET xabs == FAbs(val)
    IN  IF FGreater(xabs, MP_RDWARF) /\ FLess(xabs, agiant)
        THEN \* sum for intermediate components
             [acc EXCEPT !.s2 = FAdd(acc.s2, FMul(xabs, xabs))]
        ELSE IF FGreater(xabs, MP_RDWARF)
        THEN \* sum for large components
             IF FGreater(xabs, acc.x1max)
             THEN LET temp == FDiv(acc.x1max, xabs)
                  IN  [acc EXCEPT !.s1 = FAdd(One, FMul(FMul(acc.s1, temp), temp)),
                                  !.x1max = xabs]
             ELSE LET temp == FDiv(xabs, acc.x1max)
                  IN  [acc EXCEPT !.s1 = FAdd(acc.s1, FMul(temp, temp))]
        ELSE IF FGreater(xabs, acc.x3max)
        THEN \* sum for small components
             LET temp == FDiv(acc.x3max, xabs)
             IN  [acc EXCEPT !.s3 = FAdd(One, FMul(FMul(acc.s3, temp), temp)),
                             !.x3max = xabs]
        ELSE IF ~IsZero(xabs)
        THEN LET temp == FDiv(xabs, acc.x3max)
             IN  [acc EXCEPT !.s3 = FAdd(acc.s3, FMul(temp, temp))]
        ELSE acc

RECURSIVE EnormLoop(_, _, _, _)
EnormLoop(acc, fvec, i, agiant) ==
    IF i >= Len(fvec) THEN acc
    ELSE EnormLoop(EnormStep(acc, At(fvec, i), agiant), fvec, i + 1, agiant)

\* the calculation of the norm with the square root of the intermediate
\* branch left out
EnormFinal_no_sqrt(acc) ==
    IF ~IsZero(acc.s1)
    THEN FMul(acc.x1max,
              FSqrt(FAdd(acc.s1, FDiv(FDiv(acc.s2, acc.x1max), acc.x1max))))
    ELSE IF ~IsZero(acc.s2)
    THEN IF FGeq(acc.s2, acc.x3max)
         THEN FMul(acc.s2,
                   FAdd(One, FMul(FDiv(acc.x3max, acc.s2), FMul(acc.x3max, acc.s3))))
         ELSE FMul(acc.x3max,
                   FAdd(FDiv(acc.s2, acc.x3max), FMul(acc.x3max, acc.s3)))
    ELSE FMul(acc.x3max, FSqrt(acc.s3))

\* the calculation of the norm from the three sums
EnormFinal(acc) ==
    IF ~IsZero(acc.s1)
    THEN FMul(acc.x1max,
              FSqrt(FAdd(acc.s1, FDiv(FDiv(acc.s2, acc.x1max), acc.x1max))))
    ELSE IF ~IsZero(acc.s2)
    THEN FSqrt(IF FGeq(acc.s2, acc.x3max)
               THEN FMul(acc.s2,
                         FAdd(One, FMul(FDiv(acc.x3max, acc.s2),
                                        FMul(acc.x3max, acc.s3))))
               ELSE FMul(acc.x3max,
                         FAdd(FDiv(acc.s2, acc.x3max), FMul(acc.x3max, acc.s3))))
    ELSE FMul(acc.x3max, FSqrt(acc.s3))

\* MPFit::enorm on a working state with m data points and residuals fvec
enorm(m, fvec) ==
    LET agiant == FDiv(MP_RGIANT, IntNum(m))
        acc0 == [s1 |-> Zero, s2 |-> Zero, s3 |-> Zero,
                 x1max |-> Zero, x3max |-> Zero]
    IN  EnormFinal(EnormLoop(acc0, fvec, 0, agiant))


\* ------------------------------------------------------------- the inputs
\* MPPar::default()
MPParDefault ==
    [fixed |-> FALSE, limited_low |-> FALSE, limited_up |-> FALSE,
     limit_low |-> 0, limit_up |-> 0, step |-> 0, rel_step |-> 0, side |-> "Auto"]

\* the constraint records a caller passes in this model
ParChoices ==
    { MPParDefault,
      [MPParDefault EXCEPT !.fixed = TRUE],
      [MPParDefault EXCEPT !.limited_low = TRUE, !.limited_up = TRUE],
      [MPParDefault EXCEPT !.fixed = TRUE, !.limited_low = TRUE, !.limited_up = TRUE],
      [MPParDefault EXCEPT !.step = 1, !.rel_step = 1] }

\* the initial parameter values a caller passes in this model
XVals == {0, 5}

\* MPConfig::default(); the tolerances and epsfcn are kept by name
MPConfigDefault ==
    [ftol |-> "1e-10", xtol |-> "1e-10", gtol |-> "1e-10", epsfcn |-> "EPSILON",
     step_factor |-> 100, covtol |-> "1e-14", max_iter |-> 0, max_fev |-> 0,
     n_print |-> TRUE, do_user_scale |-> FALSE, no_finite_check |-> FALSE]

\* residual values an evaluator writes: the driver's runs
DevVals == {Zero, IntNum(3)}

\* residual values an evaluator writes: the runs that exercise enorm, with
\* small, intermediate and large components of both signs
NormVals ==
    {Zero, IntNum(3), IntNum(4), Num(-1, 1, 2), Num(-1, -1, 1), Num(1, 1, 2), Num(1, -2, 1)}

SeqsUpTo(S, n) == UNION {[1..k -> S] : k \in 0..n}

\* Option<&[MPPar]>
None == [some |-> FALSE, pars |-> <<>>]
Some(pars) == [some |-> TRUE, pars |-> pars]

\* --------------------------------------------------------------- the state
VARIABLES
    pc,         \* the statement of mpfit that runs next, or "done"
    f,          \* the residual evaluator: npoints and the deviates eval writes
    nEval,      \* the number of calls of f.eval so far
    xall,       \* the caller's parameter vector
    xall0,      \* the caller's parameter vector on entry
    params,     \* the constraint argument
    config,     \* the configuration argument
    fit,        \* the working state MPFit
    fnorm,      \* local fnorm of mpfit
    orig_norm,  \* local orig_norm of mpfit
    hs,         \* the step h fdjack2 computed for each free parameter
    result      \* what the call returned, or how it aborted

vars == <<pc, f, nEval, xall, xall0, params, config, fit, fnorm, orig_norm, hs, result>>

\* the working state before MPFit::new has run
NoFit ==
    [m |-> 0, npar |-> 0, nfree |-> 0, ifree |-> <<>>, fvec |-> <<>>, nfev |-> 0,
     xnew |-> <<>>, x |-> <<>>, qtf |-> <<>>, fjack |-> <<>>,
     side |-> <<>>, step |-> <<>>, dstep |-> <<>>]

\* MPStatus as mpfit fills it in
ReturnedStatus ==
    [best_norm |-> Zero, orig_norm |-> Zero, n_iter |-> 0, n_fev |-> 0, n_par |-> 0,
     n_free |-> 0, n_pegged |-> 0, n_func |-> 0,
     resid |-> <<>>, xerror |-> <<>>, covar |-> <<>>]

NoStatus == ReturnedStatus

\* MPResult, plus the abort of an out-of-range index (arr[idx] with len elements)
NoResult == [tag |-> "None", kind |-> "", status |-> NoStatus, idx |-> 0, len |-> 0]
Error(kind) == [NoResult EXCEPT !.tag = "Error", !.kind = kind]
Success(reason, status) ==
    [NoResult EXCEPT !.tag = "Success", !.kind = reason, !.status = status]
Panic(arr, idx, len) ==
    [NoResult EXCEPT !.tag = "Panic", !.kind = arr, !.idx = idx, !.len = len]

\* n copies of v: vec![v; n]
Fill(v, n) == [i \in 1..n |-> v]

\* --------------------------------------------------------- the statements
\* the statements with the first evaluation ahead of the last validation
Stages_eval_before_dof == <<"new", "bind", "eval", "dof", "initx", "loop", "fdjack2", "ret">>
\* the order of the statements of mpfit
Stages == <<"new", "bind", "dof", "eval", "initx", "loop", "fdjack2", "ret">>

NextStage(s) ==
    LET i == CHOOSE k \in 1..Len(Stages) : Stages[k] = s
    IN  IF i = Len(Stages) THEN "done" ELSE Stages[i + 1]

\* MPFit::new without the test for zero data points
MPFitNew_unchecked(m, xs) ==
    [some |-> TRUE,
     v |-> [NoFit EXCEPT !.m = m, !.npar = Len(xs), !.fvec = Fill(Zero, m),
                         !.nfev = 1, !.xnew = Fill(0, Len(xs))]]
\* MPFit::new: None when there are no data points
MPFitNew(m, xs) ==
    IF m = 0 THEN [some |-> FALSE, v |-> NoFit]
    ELSE [some |-> TRUE,
          v |-> [NoFit EXCEPT !.m = m, !.npar = Len(xs), !.fvec = Fill(Zero, m),
                              !.nfev = 1, !.xnew = Fill(0, Len(xs))]]

\* the test of the loop with the negation dropped
IsFree_inverted(p) == p.fixed
\* whether the loop over the constraint array counts p as free
IsFree(p) == ~p.fixed

\* the loop over the constraint array, from entry i on
RECURSIVE BindPars(_, _, _)
BindPars(ft, pars, i) ==
    IF i >= Len(pars) THEN ft
    ELSE LET p == At(pars, i)
             counted == IF IsFree(p)
                        THEN [ft EXCEPT !.nfree = @ + 1, !.ifree = Append(@, i)]
                        ELSE ft
         IN  BindPars([counted EXCEPT !.side = Append(@, p.side),
                                      !.step = Append(@, p.step),
                                      !.dstep = Append(@, p.rel_step)],
                      pars, i + 1)

\* the test with <= for <
DoFCheck_inclusive(m, nfree) == m <= nfree
\* the test for too few data points
DoFCheck(m, nfree) == m < nfree

\* the first i with ifree[i] out of range of a vector of length len, or nfree
RECURSIVE FirstBad(_, _, _)
FirstBad(ft, len, i) ==
    IF i >= ft.nfree THEN ft.nfree
    ELSE IF At(ft.ifree, i) >= len THEN i
    ELSE FirstBad(ft, len, i + 1)

\* the step h of fdjack2 for free parameter j, as c * eps or c * 1
FdStep(ft, j) ==
    LET free_p == At(ft.ifree, j)
        temp == At(ft.x, free_p)
        h0 == [c |-> IAbs(temp), u |-> "eps"]
        h1 == IF Len(ft.step) > free_p /\ At(ft.step, free_p) > 0
              THEN [c |-> At(ft.step, free_p), u |-> "one"]
              ELSE h0
        h2 == IF Len(ft.dstep) > free_p /\ At(ft.dstep, free_p) > 0
              THEN [c |-> IAbs(At(ft.dstep, free_p) * temp), u |-> "one"]
              ELSE h1
    IN  IF h2.c = 0 THEN [c |-> 1, u |-> "eps"] ELSE h2

\* the loop of fdjack2 from j on: the steps computed, and the index j at
\* which x[free_p] is out of range (nfree when none is)
RECURSIVE Fdjack2Loop(_, _, _)
Fdjack2Loop(ft, j, done) ==
    IF j >= ft.nfree THEN [bad |-> ft.nfree, hs |-> done]
    ELSE IF At(ft.ifree, j) >= Len(ft.x) THEN [bad |-> j, hs |-> done]
    ELSE Fdjack2Loop(ft, j + 1, Append(done, FdStep(ft, j)))

Return(r) == pc' = "done" /\ result' = r
Continue == pc' = NextStage(pc) /\ result' = result

\* let mut fit = match MPFit::new(f.number_of_points(), xall)
New ==
    /\ pc = "new"
    /\ LET made == MPFitNew(f.npoints, xall)
       IN  IF ~made.some
           THEN Return(Error("Empty")) /\ fit' = fit
           ELSE Continue /\ fit' = made.v
    /\ UNCHANGED <<f, nEval, xall, xall0, params, config, fnorm, orig_norm, hs>>

\* match &params
Bind ==
    /\ pc = "bind"
    /\ IF ~params.some
       THEN /\ fit' = [fit EXCEPT !.nfree = fit.npar,
                                  !.ifree = [i \in 1..fit.npar |-> i - 1]]
            /\ Continue
       ELSE IF Len(params.pars) = 0
       THEN Return(Error("Empty")) /\ fit' = fit
       ELSE LET bound == BindPars(fit, params.pars, 0)
            IN  /\ fit' = bound
                /\ IF bound.nfree = 0 THEN Return(Error("NoFree")) ELSE Continue
    /\ UNCHANGED <<f, nEval, xall, xall0, params, config, fnorm, orig_norm, hs>>

\* if fit.m < fit.nfree
DoF ==
    /\ pc = "dof"
    /\ IF DoFCheck(fit.m, fit.nfree) THEN Return(Error("DoF")) ELSE Continue
    /\ UNCHANGED <<f, nEval, xall, xall0, params, config, fit, fnorm, orig_norm, hs>>

\* f.eval(fit.xall, &mut fit.fvec), the norm, and the copy into xnew
Eval ==
    /\ pc = "eval"
    /\ nEval' = nEval + 1
    /\ LET fvec == [i \in 1..fit.m |-> f.dev[i]]
           norm == enorm(fit.m, fvec)
       IN  /\ fit' = [fit EXCEPT !.fvec = fvec, !.xnew = xall]
           /\ fnorm' = norm
           /\ orig_norm' = FMul(norm, norm)
    /\ Continue
    /\ UNCHANGED <<f, xall, xall0, params, config, hs>>

\* fit.x, then par, iter, qtf and fjack
InitX ==
    /\ pc = "initx"
    /\ LET bad == FirstBad(fit, Len(xall), 0)
       IN  IF bad < fit.nfree
           THEN /\ Return(Panic("xall", At(fit.ifree, bad), Len(xall)))
                /\ fit' = [fit EXCEPT !.x = [i \in 1..bad |-> At(xall, At(fit.ifree, i - 1))]]
           ELSE /\ Continue
                /\ fit' = [fit EXCEPT
                       !.x = [i \in 1..fit.nfree |-> At(xall, At(fit.ifree, i - 1))],
                       !.qtf = Fill(Zero, fit.nfree),
                       !.fjack = Fill(Zero, fit.m * fit.nfree)]
    /\ UNCHANGED <<f, nEval, xall, xall0, params, config, fnorm, orig_norm, hs>>

\* loop { for i in 0..fit.nfree { fit.xnew[fit.ifree[i]] = fit.x[i] } ...
Loop ==
    /\ pc = "loop"
    /\ LET bad == FirstBad(fit, Len(fit.xnew), 0)
           upto == IF bad < fit.nfree THEN bad ELSE fit.nfree
           written == {At(fit.ifree, i) : i \in 0..(upto - 1)}
           slot(p) == CHOOSE i \in 0..(upto - 1) :
                         /\ At(fit.ifree, i) = p
                         /\ \A k \in (i + 1)..(upto - 1) : At(fit.ifree, k) # p
       IN  /\ fit' = [fit EXCEPT !.xnew =
                        [q \in 1..Len(fit.xnew) |->
                            IF (q - 1) \in written THEN At(fit.x, slot(q - 1))
                            ELSE fit.xnew[q]]]
           /\ IF bad < fit.nfree
              THEN Return(Panic("xnew", At(fit.ifree, bad), Len(fit.xnew)))
              ELSE Continue
    /\ UNCHANGED <<f, nEval, xall, xall0, params, config, fnorm, orig_norm, hs>>

\* fit.fdjack2(&config); break
Fdjack2 ==
    /\ pc = "fdjack2"
    /\ LET run == Fdjack2Loop(fit, 0, <<>>)
       IN  /\ hs' = run.hs
           /\ IF run.bad < fit.nfree
              THEN Return(Panic("x", At(fit.ifree, run.bad), Len(fit.x)))
              ELSE Continue
    /\ UNCHANGED <<f, nEval, xall, xall0, params, config, fit, fnorm, orig_norm>>

\* MPResult::Success(MPSuccess::Both, MPStatus { .. })
Ret ==
    /\ pc = "ret"
    /\ Return(Success("Both", ReturnedStatus))
    /\ UNCHANGED <<f, nEval, xall, xall0, params, config, fit, fnorm, orig_norm, hs>>

\* the state shared by every call before its first statement
Entry ==
    /\ pc = Stages[1]
    /\ nEval = 0
    /\ xall0 = xall
    /\ config \in {[MPConfigDefault EXCEPT !.max_iter = k] : k \in 0..MaxIter}
    /\ fit = NoFit
    /\ fnorm = Zero
    /\ orig_norm = Zero
    /\ hs = <<>>
    /\ result = NoResult

Init ==
    /\ xall \in SeqsUpTo(XVals, MaxPar)
    /\ params \in {None} \cup {Some(ps) : ps \in SeqsUpTo(ParChoices, MaxPar)}
    /\ \E m \in 0..MaxM : f \in {[npoints |-> m, dev |-> d] : d \in [1..m -> DevVals]}
    /\ Entry

\* calls without constraints, on evaluators whose residuals span the scales
InitNorm ==
    /\ xall \in SeqsUpTo({0}, 1)
    /\ params = None
    /\ \E m \in 0..MaxM : f \in {[npoints |-> m, dev |-> d] : d \in [1..m -> NormVals]}
    /\ Entry

Next == New \/ Bind \/ DoF \/ Eval \/ InitX \/ Loop \/ Fdjack2 \/ Ret

Spec == Init /\ [][Next]_vars

SpecNorm == InitNorm /\ [][Next]_vars

\* ------------------------------------------------------------ the claims
Done == pc = "done"

\* the inputs of the call, as the caller sees them
M == f.npoints
NPar == Len(xall0)
FreeIn == IF params.some
          THEN {i \in 1..Len(params.pars) : ~params.pars[i].fixed}
          ELSE 1..NPar
NFreeIn == Cardinality(FreeIn)
AllFixed == params.some /\ Len(params.pars) > 0 /\ FreeIn = {}

\* entry i of the constraint array bounds xall[i] and the initial value is outside
OutOfBounds(i) ==
    /\ params.some
    /\ i \in 1..Len(params.pars)
    /\ i \in 1..NPar
    /\ \/ params.pars[i].limited_low /\ xall0[i] < params.pars[i].limit_low
       \/ params.pars[i].limited_up /\ xall0[i] > params.pars[i].limit_up

\* the constraint array, when given, has one entry per parameter
ShapeOk == params.some => Len(params.pars) = NPar

\* an input every validation of the design accepts
ValidInput ==
    /\ M >= 1
    /\ ShapeOk
    /\ NFreeIn >= 1
    /\ M >= NFreeIn
    /\ \A i \in FreeIn : ~OutOfBounds(i)

ValidationErrors == {"Empty", "NoFree", "DoF", "InitBounds", "Bounds"}

\* C1: a call on an evaluator that reports zero data points returns
\* Error(Empty), whatever the parameter vector and the constraint argument are.
C1_ZeroPointsEmpty == (Done /\ M = 0) => result = Error("Empty")

\* C1 witness: zero data points with every parameter fixed returned Empty
C1_Witness == Done /\ M = 0 /\ AllFixed /\ NPar > 0 /\ result = Error("Empty")

\* C2 as stated: a non-empty constraint array that fixes every parameter gives
\* Error(NoFree) for any number of data points.
C2_AllFixedNoFree_AnyData == (Done /\ AllFixed) => result = Error("NoFree")

\* C2 amended: a non-empty constraint array that fixes every parameter gives
\* Error(NoFree) whenever the evaluator reports at least one data point.
C2_AllFixedNoFree == (Done /\ AllFixed /\ M >= 1) => result = Error("NoFree")

\* C2 witness: every parameter fixed, data present, NoFree returned
C2_Witness == Done /\ AllFixed /\ M = MaxM /\ NPar > 0 /\ result = Error("NoFree")

\* C3: with at least one data point and at least one free parameter the call
\* returns Error(DoF) exactly when m < nfree.
C3_DoFIffTooFewPoints ==
    (Done /\ M >= 1 /\ NFreeIn >= 1) => (result = Error("DoF") <=> M < NFreeIn)

\* C3 witness: one data point short of the free parameters, DoF returned
C3_Witness == Done /\ M >= 1 /\ M = NFreeIn - 1 /\ result = Error("DoF")

\* C3, the boundary: as many data points as free parameters, no DoF
C3_BoundaryWitness == Done /\ M >= 1 /\ M = NFreeIn /\ result.tag = "Success"

\* C4: on a call that passes the earlier validations and returns, a free
\* parameter whose initial value is outside an active limit gives
\* Error(InitBounds), and an input whose only out-of-bounds values belong to
\* fixed parameters never does.
C4_InitBounds ==
    (Done /\ M >= 1 /\ params.some /\ ShapeOk /\ NFreeIn >= 1 /\ M >= NFreeIn
          /\ result.tag # "Panic")
        => (result = Error("InitBounds") <=> \E i \in FreeIn : OutOfBounds(i))

\* C5: a call that returned a validation error made no call of eval and left
\* the caller's parameter vector as it was on entry.
C5_ValidationErrorsLeaveNoTrace ==
    (Done /\ result.tag = "Error" /\ result.kind \in ValidationErrors)
        => (nEval = 0 /\ xall = xall0)

\* C5 witness: the last validation (DoF) failed, with parameters to overwrite
C5_Witness == Done /\ result = Error("DoF") /\ NPar > 0 /\ nEval = 0

\* C6: with max_iter = 0 every input that passes validation returns Success
\* with the parameter vector unchanged, n_iter = 0 and exactly one call of eval.
C6_MaxIterZero ==
    (Done /\ config.max_iter = 0 /\ ValidInput)
        => /\ result.tag = "Success"
           /\ xall = xall0
           /\ result.status.n_iter = 0
           /\ nEval = 1

\* C7: the status of a Success result describes the solved problem: n_par,
\* n_free and n_func are the problem's, n_pegged <= n_free, and resid, xerror
\* and covar have m, npar and npar * npar entries.
C7_StatusDescribesProblem ==
    (Done /\ result.tag = "Success")
        => /\ result.status.n_par = NPar
           /\ result.status.n_free = NFreeIn
           /\ result.status.n_func = M
           /\ result.status.n_pegged <= result.status.n_free
           /\ Len(result.status.resid) = M
           /\ Len(result.status.xerror) = NPar
           /\ Len(result.status.covar) = NPar * NPar

\* C8: a constraint array whose length differs from the parameter vector's
\* gives Error(Input); stated for the calls on which no other validation error
\* is due (data points present, a free parameter, m >= nfree) and that return.
C8_ShapeMismatchInput ==
    (Done /\ M >= 1 /\ params.some /\ NFreeIn >= 1 /\ M >= NFreeIn /\ ~ShapeOk
          /\ result.tag # "Panic")
        => result = Error("Input")

\* the squares of the components summed exactly, from component i on
RECURSIVE SumSq(_, _)
SumSq(v, i) ==
    IF i >= Len(v) THEN Zero
    ELSE FAdd(FSquare(FAbs(At(v, i))), SumSq(v, i + 1))

\* above the dwarf threshold and below the giant threshold over the length
Intermediate(v, len) ==
    /\ FGreater(FAbs(v), MP_RDWARF)
    /\ FLess(FAbs(v), FDiv(MP_RGIANT, IntNum(len)))

\* C9: the norm of an all-zero residual vector is exactly 0, the norm of a
\* vector of intermediate components is the square root of the sum of their
\* squares, and the norm of [3, 4] is exactly 5.
C9_EnormPlainCases ==
    nEval >= 1 =>
        /\ (\A i \in 1..fit.m : IsZero(fit.fvec[i])) => fnorm = Zero
        /\ (\A i \in 1..fit.m : Intermediate(fit.fvec[i], fit.m))
               => fnorm = FSqrt(SumSq(fit.fvec, 0))
        /\ fit.fvec = <<IntNum(3), IntNum(4)>> => fnorm = IntNum(5)

\* C9 witness: the residuals [3, 4] were evaluated and their norm is 5
C9_Witness == nEval = 1 /\ fit.fvec = <<IntNum(3), IntNum(4)>> /\ fnorm = IntNum(5)

\* C10: a call that passes validation with a constraint array as long as the
\* parameter vector makes only in-range accesses, so it does not abort.
C10_IndexesInRange ==
    (Done /\ params.some /\ ShapeOk /\ result.tag # "Error") => result.tag # "Panic"
====
